---- MODULE Spec2Model ----
(***************************************************************************)
(* A model of the MIPS-like CPU simulator: the CPU of cpu.py running on    *)
(* the MemoryBus of memory_bus.py with its embedded address->word Cache,   *)
(* as wired together by main.py.                                           *)
(*                                                                         *)
(* Python integers are unbounded and the machine word is 32 bits wide, so  *)
(* an integer n is held as the pair [hi, lo] with n = hi * 2^16 + lo and   *)
(* 0 <= lo < 2^16 (hi carries the sign).  All arithmetic below is exact.   *)
(***************************************************************************)
EXTENDS Integers, Sequences, FiniteSets, TLC

VARIABLES
    pc,             \* CPU.pc
    registers,      \* CPU.registers
    halted,         \* CPU.halted
    branch_taken,   \* CPU.branch_taken
    branch_target,  \* CPU.branch_target (<<>> is None, <<v>> a value)
    memory_bus,     \* CPU.memory_bus: the MemoryBus object (record)
    cache,          \* a Cache of cache.py built on memory_bus (record)
    ref,            \* the same CPU on a bus that serves every read from memory
    last,           \* history: the operation performed by the last step
    steps           \* history: number of operations performed so far

vars == <<pc, registers, halted, branch_taken, branch_target, memory_bus,
          cache, ref, last, steps>>

----------------------------------------------------------------------------
(* Bounds of the model *)

MaxSteps == 4
MaxProgLen == 3
MaxCalls == 3
MaxCacheCalls == 5
MaxCount == 6
MaxRunSteps == 40
MaxBodyLen == 3

----------------------------------------------------------------------------
(* Python integers as two limbs *)

Limb == 256 * 256

V(h, l) == [hi |-> h, lo |-> l]

\* the integer h * 2^16 + l for any integer l
Norm(h, l) == [hi |-> h + (l \div Limb), lo |-> l % Limb]

\* a small integer (|n| < 2^31) as a value
IntVal(n) == Norm(0, n)

\* a value known to be small, as an integer
ToInt(v) == v.hi * Limb + v.lo

VAdd(a, b) == Norm(a.hi + b.hi, a.lo + b.lo)

VSub(a, b) == Norm(a.hi - b.hi, a.lo - b.lo)

VLess(a, b) == a.hi < b.hi \/ (a.hi = b.hi /\ a.lo < b.lo)

VGe(a, b) == ~VLess(a, b)

\* v & 0xFFFFFFFF
Mask32(v) == [hi |-> v.hi % Limb, lo |-> v.lo]

\* 0 <= v < 2^32
IsU32(v) == v.hi >= 0 /\ v.hi < Limb

\* v << 2
Shl2(v) == Norm(v.hi * 4, v.lo * 4)

Zero == V(0, 0)

----------------------------------------------------------------------------
(* Program constants *)

MEMORY_SIZE == 1048576

\* 0xF0000000
IO_BASE == V(61440, 0)

MemSizeVal == IntVal(MEMORY_SIZE)

----------------------------------------------------------------------------
(* The bytearray MemoryBus.memory: its length and its non-zero bytes *)

EmptyMap == [x \in {} |-> 0]

NewMemory == [len |-> MEMORY_SIZE, data |-> EmptyMap]

MemByte(m, i) == IF i \in DOMAIN m.data THEN m.data[i] ELSE 0

\* Python's slice.indices: the clamped position of slice bound i in a sequence of length n
SliceBound(i, n) ==
    IF i < 0 THEN (IF i + n < 0 THEN 0 ELSE i + n)
    ELSE (IF i > n THEN n ELSE i)

\* memory[a:a+4] as a sequence of bytes
MemSlice(m, a) ==
    LET start == SliceBound(a, m.len)
        stop == SliceBound(a + 4, m.len)
    IN  IF stop > start
        THEN [k \in 1..(stop - start) |-> MemByte(m, start + k - 1)]
        ELSE <<>>

\* memory[a:a+4] = bs (bs a sequence of 4 bytes): the slice is replaced by bs
MemSetSlice(m, a, bs) ==
    LET start == SliceBound(a, m.len)
        stop0 == SliceBound(a + 4, m.len)
        stop == IF stop0 < start THEN start ELSE stop0
        grow == Len(bs) - (stop - start)
        old(i) == IF i < start THEN MemByte(m, i)
                  ELSE IF i < start + Len(bs) THEN bs[i - start + 1]
                  ELSE MemByte(m, i - grow)
        cand == {i \in DOMAIN m.data : i < start}
                \cup {start + k - 1 : k \in 1..Len(bs)}
                \cup {i + grow : i \in {j \in DOMAIN m.data : j >= stop}}
        dom == {i \in cand : old(i) # 0}
    IN  [len |-> m.len + grow, data |-> [i \in dom |-> old(i)]]

\* int.from_bytes(bs, byteorder='big')
FromBytes(bs) ==
    IF Len(bs) = 0 THEN Zero
    ELSE IF Len(bs) = 1 THEN V(0, bs[1])
    ELSE IF Len(bs) = 2 THEN V(0, bs[1] * 256 + bs[2])
    ELSE IF Len(bs) = 3 THEN V(bs[1], bs[2] * 256 + bs[3])
    ELSE V(bs[1] * 256 + bs[2], bs[3] * 256 + bs[4])

\* value.to_bytes(4, byteorder='big'), defined for 0 <= value < 2^32
ToBytes(v) == <<v.hi \div 256, v.hi % 256, v.lo \div 256, v.lo % 256>>

\* the big-endian word stored at bytes a..a+3
MemWord(m, a) == FromBytes(MemSlice(m, a))

----------------------------------------------------------------------------
(* memory_bus.py: Cache, the address -> word dictionary embedded in the bus *)

\* Cache.__init__: the default geometry, cache_size=1024, block_size=16
cache_size == 1024

block_size == 16

NewCache == [cache |-> EmptyMap, hits |-> 0, misses |-> 0]

\* Cache.read_word: hit = FALSE stands for the None it returns on a miss
CacheReadWord(c, a) ==
    IF a \in DOMAIN c.cache
    THEN [cache |-> [c EXCEPT !.hits = @ + 1], hit |-> TRUE, value |-> c.cache[a]]
    ELSE [cache |-> [c EXCEPT !.misses = @ + 1], hit |-> FALSE, value |-> Zero]

\* Cache.write_word
CacheWriteWord(c, a, value) ==
    [c EXCEPT !.cache = [x \in (DOMAIN c.cache) \cup {a} |->
                            IF x = a THEN value ELSE c.cache[x]]]

\* Cache.clear
CacheClear(c) == NewCache

\* a quotient of two integers, held exactly as a fraction
Ratio(n, d) == [num |-> n, den |-> d]

\* the fractions p and q are the same number (denominators positive)
RatioEq(p, q) == p.num * q.den = q.num * p.den

\* Cache.get_stats: hit_rate is (hits / total * 100) if total > 0 else 0
CacheGetStats(c) ==
    LET total == c.hits + c.misses
    IN  [hits |-> c.hits, misses |-> c.misses,
         hit_rate |-> IF total > 0 THEN Ratio(c.hits * 100, total) ELSE Ratio(0, 1)]

----------------------------------------------------------------------------
(* memory_bus.py: MemoryBus *)

\* MemoryBus.__init__
NewBus ==
    [memory |-> NewMemory,
     cache |-> NewCache,
     io_devices |-> [x \in {IO_BASE, VAdd(IO_BASE, IntVal(4))} |->
                        IF x = IO_BASE THEN IntVal(8) ELSE Zero],
     reads |-> 0, writes |-> 0, io_reads |-> 0, io_writes |-> 0]

\* the result of a bus call: the bus afterwards, the exception raised
\* ("none" when it returned) and the value returned
Returned(bus, value) == [bus |-> bus, exc |-> "none", value |-> value]

Raised(bus, exc) == [bus |-> bus, exc |-> exc, value |-> Zero]

\* OutOfBounds testing the first byte of the word only: address >= MEMORY_SIZE
OutOfBounds_FirstByte(address) == VGe(address, MemSizeVal)

\* the bounds test of read_word and write_word: address + 4 > MEMORY_SIZE
OutOfBounds(address) == VLess(MemSizeVal, VAdd(address, IntVal(4)))

\* ReadMemory counting a memory read on a cache hit too
ReadMemory_CountsHits(bus, a) ==
    LET c == CacheReadWord(bus.cache, a)
        value == MemWord(bus.memory, a)
    IN  IF c.hit
        THEN Returned([bus EXCEPT !.cache = c.cache, !.reads = @ + 1], c.value)
        ELSE Returned([bus EXCEPT !.cache = CacheWriteWord(c.cache, a, value),
                                  !.reads = @ + 1], value)

\* MemoryBus.read_word: the memory branch, through the cache
ReadMemory(bus, a) ==
    LET c == CacheReadWord(bus.cache, a)
        value == MemWord(bus.memory, a)
    IN  IF c.hit
        THEN Returned([bus EXCEPT !.cache = c.cache], c.value)
        ELSE Returned([bus EXCEPT !.cache = CacheWriteWord(c.cache, a, value),
                                  !.reads = @ + 1], value)

\* ReadWord counting a read of an I/O register as a cache miss
ReadWord_IOCounted(bus, address) ==
    IF VGe(address, IO_BASE)
    THEN IF address \in DOMAIN bus.io_devices
         THEN Returned([bus EXCEPT !.io_reads = @ + 1, !.cache.misses = @ + 1],
                       bus.io_devices[address])
         ELSE Raised(bus, "MemoryError")
    ELSE IF OutOfBounds(address)
    THEN Raised(bus, "MemoryError")
    ELSE ReadMemory(bus, ToInt(address))

\* MemoryBus.read_word
ReadWord(bus, address) ==
    IF VGe(address, IO_BASE)
    THEN IF address \in DOMAIN bus.io_devices
         THEN Returned([bus EXCEPT !.io_reads = @ + 1], bus.io_devices[address])
         ELSE Raised(bus, "MemoryError")
    ELSE IF OutOfBounds(address)
    THEN Raised(bus, "MemoryError")
    ELSE ReadMemory(bus, ToInt(address))

\* WriteMemory storing to the byte array only when the address was not cached
WriteMemory_WriteBack(bus, a, value) ==
    LET cached == [bus EXCEPT !.cache = CacheWriteWord(bus.cache, a, value)]
    IN  IF ~IsU32(value)
        THEN Raised(cached, "OverflowError")
        ELSE IF a \in DOMAIN bus.cache.cache
        THEN Returned([cached EXCEPT !.writes = @ + 1], Zero)
        ELSE Returned([cached EXCEPT
                          !.memory = MemSetSlice(bus.memory, a, ToBytes(value)),
                          !.writes = @ + 1], Zero)

\* MemoryBus.write_word: the memory branch, cache first, then the byte array
WriteMemory(bus, a, value) ==
    LET cached == [bus EXCEPT !.cache = CacheWriteWord(bus.cache, a, value)]
    IN  IF ~IsU32(value)
        THEN Raised(cached, "OverflowError")
        ELSE Returned([cached EXCEPT
                          !.memory = MemSetSlice(bus.memory, a, ToBytes(value)),
                          !.writes = @ + 1], Zero)

\* WriteWord creating the I/O register it is asked to write
WriteWord_Registers(bus, address, value) ==
    IF VGe(address, IO_BASE)
    THEN Returned([bus EXCEPT
                      !.io_devices = [x \in (DOMAIN bus.io_devices) \cup {address} |->
                                         IF x = address THEN value ELSE bus.io_devices[x]],
                      !.io_writes = @ + 1], Zero)
    ELSE IF OutOfBounds(address)
    THEN Raised(bus, "MemoryError")
    ELSE WriteMemory(bus, ToInt(address), value)

\* MemoryBus.write_word
WriteWord(bus, address, value) ==
    IF VGe(address, IO_BASE)
    THEN IF address \in DOMAIN bus.io_devices
         THEN Returned([bus EXCEPT !.io_devices[address] = value,
                                   !.io_writes = @ + 1], Zero)
         ELSE Raised(bus, "MemoryError")
    ELSE IF OutOfBounds(address)
    THEN Raised(bus, "MemoryError")
    ELSE WriteMemory(bus, ToInt(address), value)

\* the reference of C3, a bus without a cache: read_word with every memory
\* read served from the byte array
UncachedReadWord(bus, address) ==
    IF VGe(address, IO_BASE)
    THEN IF address \in DOMAIN bus.io_devices
         THEN Returned([bus EXCEPT !.io_reads = @ + 1], bus.io_devices[address])
         ELSE Raised(bus, "MemoryError")
    ELSE IF OutOfBounds(address)
    THEN Raised(bus, "MemoryError")
    ELSE Returned([bus EXCEPT !.reads = @ + 1], MemWord(bus.memory, ToInt(address)))

\* self.memory[i] = b
MemSetByte(m, i, b) ==
    LET dom == IF b = 0 THEN (DOMAIN m.data) \ {i} ELSE (DOMAIN m.data) \cup {i}
    IN  [m EXCEPT !.data = [x \in dom |-> IF x = i THEN b ELSE m.data[x]]]

\* MemoryBus.load_program: the loop storing program[i] at base_address + i.
\* A negative index counts from the end of the bytearray, an index outside
\* [-len, len) raises IndexError with the bytes stored so far kept.
RECURSIVE StoreBytes(_, _, _)
StoreBytes(m, base, program) ==
    IF Len(program) = 0 THEN [memory |-> m, exc |-> "none"]
    ELSE IF base < 0 - m.len \/ base >= m.len THEN [memory |-> m, exc |-> "IndexError"]
    ELSE StoreBytes(MemSetByte(m, IF base < 0 THEN base + m.len ELSE base, Head(program)),
                    base + 1, Tail(program))

\* LoadProgram leaving the cache as it was
LoadProgram_KeepsCache(bus, program, base_address) ==
    IF base_address + Len(program) > MEMORY_SIZE
    THEN Raised(bus, "MemoryBusError")
    ELSE LET stored == StoreBytes(bus.memory, base_address, program)
         IN  IF stored.exc # "none"
             THEN Raised([bus EXCEPT !.memory = stored.memory], "MemoryBusError")
             ELSE Returned([bus EXCEPT !.memory = stored.memory], Zero)

\* MemoryBus.load_program (program a sequence of bytes): every exception is
\* re-raised as MemoryBusError
LoadProgram(bus, program, base_address) ==
    IF base_address + Len(program) > MEMORY_SIZE
    THEN Raised(bus, "MemoryBusError")
    ELSE LET stored == StoreBytes(bus.memory, base_address, program)
         IN  IF stored.exc # "none"
             THEN Raised([bus EXCEPT !.memory = stored.memory], "MemoryBusError")
             ELSE Returned([bus EXCEPT !.memory = stored.memory,
                                       !.cache = CacheClear(bus.cache)], Zero)

\* memory[a:a+len(bs)] = bs: the slice is replaced by bs
MemSetRange(m, a, bs) ==
    LET start == SliceBound(a, m.len)
        stop0 == SliceBound(a + Len(bs), m.len)
        stop == IF stop0 < start THEN start ELSE stop0
        grow == Len(bs) - (stop - start)
        old(i) == IF i < start THEN MemByte(m, i)
                  ELSE IF i < start + Len(bs) THEN bs[i - start + 1]
                  ELSE MemByte(m, i - grow)
        cand == {i \in DOMAIN m.data : i < start}
                \cup {start + k - 1 : k \in 1..Len(bs)}
                \cup {i + grow : i \in {j \in DOMAIN m.data : j >= stop}}
        dom == {i \in cand : old(i) # 0}
    IN  [len |-> m.len + grow, data |-> [i \in dom |-> old(i)]]

\* the items of init_data: an address with an int or with a bytes object
IntData(address, value) ==
    [address |-> address, int |-> TRUE, value |-> value, bytes |-> <<>>]

BytesData(address, bytes) ==
    [address |-> address, int |-> FALSE, value |-> Zero, bytes |-> bytes]

\* MemoryBus.load_memory: the loop over init_data.items(), in insertion order
RECURSIVE LoadItems(_, _)
LoadItems(m, items) ==
    IF Len(items) = 0 THEN [memory |-> m, exc |-> "none"]
    ELSE LET item == Head(items)
             data_bytes == IF item.int THEN ToBytes(item.value) ELSE item.bytes
         IN  IF item.int /\ ~IsU32(item.value)
             THEN [memory |-> m, exc |-> "OverflowError"]
             ELSE IF item.address + Len(data_bytes) > MEMORY_SIZE
             THEN [memory |-> m, exc |-> "MemoryBusError"]
             ELSE LoadItems(MemSetRange(m, item.address, data_bytes), Tail(items))

\* MemoryBus.load_memory (init_data the sequence of the dictionary's items):
\* every exception is re-raised as MemoryBusError
LoadMemory(bus, init_data) ==
    LET loaded == LoadItems(bus.memory, init_data)
    IN  IF loaded.exc # "none"
        THEN Raised([bus EXCEPT !.memory = loaded.memory], "MemoryBusError")
        ELSE Returned([bus EXCEPT !.memory = loaded.memory], Zero)

\* Clear with the four counters of the bus left as they were
Clear_KeepsCounters(bus) ==
    Returned([bus EXCEPT !.memory = NewMemory, !.cache = CacheClear(bus.cache)], Zero)

\* MemoryBus.clear
Clear(bus) ==
    Returned([bus EXCEPT !.memory = NewMemory,
                         !.cache = CacheClear(bus.cache),
                         !.reads = 0, !.writes = 0,
                         !.io_reads = 0, !.io_writes = 0], Zero)

\* the bounds test of read and write: not (0 <= address < MEMORY_SIZE - 3)
OutOfRange(address) ==
    address.hi < 0 \/ VGe(address, IntVal(MEMORY_SIZE - 3))

\* MemoryBus.read: a word found in the dictionary is returned, a word read
\* from the byte array is not stored in it
Read(bus, address) ==
    IF VGe(address, IO_BASE)
    THEN IF address \in DOMAIN bus.io_devices
         THEN Returned(bus, bus.io_devices[address])
         ELSE Raised(bus, "MemoryError")
    ELSE IF OutOfRange(address)
    THEN Raised(bus, "MemoryError")
    ELSE LET c == CacheReadWord(bus.cache, ToInt(address))
         IN  IF c.hit
             THEN Returned([bus EXCEPT !.cache = c.cache], c.value)
             ELSE Returned([bus EXCEPT !.cache = c.cache, !.reads = @ + 1],
                           MemWord(bus.memory, ToInt(address)))

\* MemoryBus.write (data an int)
Write(bus, address, data) ==
    IF VGe(address, IO_BASE)
    THEN IF address \in DOMAIN bus.io_devices
         THEN Returned([bus EXCEPT !.io_devices[address] = data,
                                   !.io_writes = @ + 1], Zero)
         ELSE Raised(bus, "MemoryError")
    ELSE IF OutOfRange(address)
    THEN Raised(bus, "MemoryError")
    ELSE WriteMemory(bus, ToInt(address), data)

----------------------------------------------------------------------------
(* cache.py: the Cache with lines of line_size entries, flush and toggle.  *)
(* A cache is the record c of its fields; an operation returns the cache   *)
(* and the bus afterwards, the exception raised and the value returned: a  *)
(* list of words (list = TRUE) or the word the bus returned.  Addresses    *)
(* are integers below 2^31 in absolute value.                              *)

CACHE_SIZE == 1024

LINE_SIZE == 32

\* Cache._log2
RECURSIVE Log2(_)
Log2(x) == IF x > 1 THEN Log2(x \div 2) + 1 ELSE 0

\* 1 << n
RECURSIVE Pow2(_)
Pow2(n) == IF n = 0 THEN 1 ELSE 2 * Pow2(n - 1)

NumLines == CACHE_SIZE \div LINE_SIZE

OffsetBits == Log2(LINE_SIZE)

IndexBits == Log2(NumLines)

\* CacheLine.__init__: tag and data are None
NewCacheLine == [valid |-> FALSE, tag |-> <<>>, data |-> <<>>, last_accessed |-> 0]

\* Cache.__init__
NewLineCache ==
    [enabled |-> TRUE, access_count |-> 0,
     lines |-> [i \in 0..(NumLines - 1) |-> NewCacheLine],
     hits |-> 0, misses |-> 0]

\* the address fields of read and write
LineOffset(address) == address % Pow2(OffsetBits)

LineIndex(address) == (address \div Pow2(OffsetBits)) % Pow2(IndexBits)

LineTag(address) == address \div Pow2(OffsetBits + IndexBits)

\* the result of a call of the cache
CacheResult(c, bus, exc, list, words) ==
    [cache |-> c, bus |-> bus, exc |-> exc, list |-> list, words |-> words]

\* data[offset:offset + 4] of a list
ListSlice(data, offset) ==
    LET stop == IF offset + 4 > Len(data) THEN Len(data) ELSE offset + 4
    IN  [k \in 1..(stop - offset) |-> data[offset + k]]

\* Cache.read: the loop appending memory_bus.read(line_address + i) for
\* i = done .. line_size - 1 to data
RECURSIVE FillLine(_, _, _, _)
FillLine(bus, line_address, done, data) ==
    IF done = LINE_SIZE THEN [bus |-> bus, exc |-> "none", data |-> data]
    ELSE LET r == Read(bus, IntVal(line_address + done))
         IN  IF r.exc # "none" THEN [bus |-> r.bus, exc |-> r.exc, data |-> data]
             ELSE FillLine(r.bus, line_address, done + 1, Append(data, r.value))

\* Cache.read
LineCacheRead(c, bus, address) ==
    IF ~c.enabled
    THEN LET r == Read(bus, IntVal(address))
         IN  CacheResult(c, r.bus, r.exc, FALSE, <<r.value>>)
    ELSE LET counted == [c EXCEPT !.access_count = @ + 1]
             index == LineIndex(address)
             cache_line == c.lines[index]
         IN  IF cache_line.valid /\ cache_line.tag = <<LineTag(address)>>
             THEN CacheResult([counted EXCEPT !.hits = @ + 1,
                                  !.lines[index].last_accessed = counted.access_count],
                              bus, "none", TRUE,
                              ListSlice(cache_line.data, LineOffset(address)))
             ELSE LET missed == [counted EXCEPT !.misses = @ + 1]
                      filled == FillLine(bus, address - LineOffset(address), 0, <<>>)
                  IN  IF filled.exc # "none"
                      THEN CacheResult(missed, filled.bus, filled.exc, TRUE, <<>>)
                      ELSE CacheResult(
                               [missed EXCEPT !.lines[index] =
                                   [valid |-> TRUE, tag |-> <<LineTag(address)>>,
                                    data |-> filled.data,
                                    last_accessed |-> counted.access_count]],
                               filled.bus, "none", TRUE,
                               ListSlice(filled.data, LineOffset(address)))

\* Cache.write (data an int): on a hit the slice assignment
\* cache_line.data[offset:offset + 4] = data raises TypeError
LineCacheWrite(c, bus, address, data) ==
    IF ~c.enabled
    THEN LET r == Write(bus, IntVal(address), data)
         IN  CacheResult(c, r.bus, r.exc, FALSE, <<>>)
    ELSE LET counted == [c EXCEPT !.access_count = @ + 1]
             cache_line == c.lines[LineIndex(address)]
             r == Write(bus, IntVal(address), data)
         IN  IF r.exc # "none"
             THEN CacheResult(counted, r.bus, r.exc, FALSE, <<>>)
             ELSE IF cache_line.valid /\ cache_line.tag = <<LineTag(address)>>
             THEN CacheResult([counted EXCEPT !.hits = @ + 1], r.bus, "TypeError",
                              FALSE, <<>>)
             ELSE CacheResult([counted EXCEPT !.misses = @ + 1], r.bus, "none",
                              FALSE, <<>>)

\* Cache.flush
LineCacheFlush(c) ==
    [c EXCEPT !.lines = [i \in DOMAIN c.lines |->
                            [c.lines[i] EXCEPT !.valid = FALSE, !.tag = <<>>,
                                               !.data = <<>>]],
              !.hits = 0, !.misses = 0, !.access_count = 0]

\* Cache.toggle
LineCacheToggle(c, status) ==
    IF ~status THEN LineCacheFlush([c EXCEPT !.enabled = status])
    ELSE [c EXCEPT !.enabled = status]

----------------------------------------------------------------------------
(* instruction_set.py: InstructionSet *)

\* InstructionSet.add
add(rd, rs, rt) == VAdd(rs, rt)

\* InstructionSet.sub
sub(rd, rs, rt) == VSub(rs, rt)

\* InstructionSet.slt
slt(rd, rs, rt) == IF VLess(rs, rt) THEN IntVal(1) ELSE Zero

----------------------------------------------------------------------------
(* cpu.py: CPU.  A CPU is the record s of its fields; an operation that    *)
(* can raise returns [s, exc]: the fields when it returned or raised, and  *)
(* the exception ("none" when it returned).                                *)

Regs == 0..31

\* CPU.reset
ResetRegisters == [r \in Regs |-> IF r = 29 THEN V(32767, 65535) ELSE Zero]

NewCPU(bus) ==
    [pc |-> Zero, registers |-> ResetRegisters, halted |-> FALSE,
     branch_taken |-> FALSE, branch_target |-> <<>>, memory_bus |-> bus]

\* reset with the halted flag left as it was
reset_keeps_halted(s) ==
    [s EXCEPT !.pc = Zero, !.registers = ResetRegisters,
              !.branch_taken = FALSE, !.branch_target = <<>>]

\* CPU.reset, called on a CPU in any state
reset(s) ==
    [s EXCEPT !.pc = Zero, !.registers = ResetRegisters, !.halted = FALSE,
              !.branch_taken = FALSE, !.branch_target = <<>>]

Ok(s) == [s |-> s, exc |-> "none"]

Raise(s, exc) == [s |-> s, exc |-> exc]

\* the opcode lists of run and decode_instruction
ITypeOpcodes == {8, 35, 43, 5, 4}

JTypeOpcodes == {2, 3}

\* if immediate & 0x8000: immediate |= -1 << 16
SignExtend(immediate) ==
    IF immediate.lo >= 32768 THEN V(-1, immediate.lo) ELSE immediate

\* CPU.decode_instruction: ok = FALSE stands for the ValueError it raises
decode_instruction(instruction) ==
    LET opcode == (instruction.hi \div 1024) % 64
        none == [ok |-> TRUE, opcode |-> opcode, rs |-> 0, rt |-> 0, rd |-> 0,
                 shamt |-> 0, funct |-> 0, immediate |-> Zero, target |-> Zero]
    IN  IF opcode = 0
        THEN [none EXCEPT !.rs = (instruction.hi \div 32) % 32,
                          !.rt = instruction.hi % 32,
                          !.rd = (instruction.lo \div 2048) % 32,
                          !.shamt = (instruction.lo \div 64) % 32,
                          !.funct = instruction.lo % 64]
        ELSE IF opcode \in ITypeOpcodes
        THEN [none EXCEPT !.rs = (instruction.hi \div 32) % 32,
                          !.rt = instruction.hi % 32,
                          !.immediate = SignExtend(V(0, instruction.lo))]
        ELSE IF opcode \in JTypeOpcodes
        THEN [none EXCEPT !.target = V(instruction.hi % 1024, instruction.lo)]
        ELSE IF opcode = 63
        THEN none
        ELSE [none EXCEPT !.ok = FALSE]

\* ForceR0 with the assignment left out
ForceR0_Skipped(regs) == regs

\* self.registers[0] = 0
ForceR0(regs) == [regs EXCEPT ![0] = Zero]

\* CPU._execute_r_type
execute_r_type(s, d) ==
    LET rs == s.registers[d.rs]
        rt == s.registers[d.rt]
        regs == IF d.funct = 32 THEN [s.registers EXCEPT ![d.rd] = add(d.rd, rs, rt)]
                ELSE IF d.funct = 34 THEN [s.registers EXCEPT ![d.rd] = sub(d.rd, rs, rt)]
                ELSE IF d.funct = 42 THEN [s.registers EXCEPT ![d.rd] = slt(d.rd, rs, rt)]
                ELSE s.registers
    IN  Ok([s EXCEPT !.registers = ForceR0(regs)])

\* the bus the CPU reads through: the MemoryBus, or the cache-less reference
BusRead(bus, address, cached) ==
    IF cached THEN ReadWord(bus, address) ELSE UncachedReadWord(bus, address)

\* execute_lw reading an out-of-bounds address as 0 instead of raising
execute_lw_reads_zero(s, d, addr, cached) ==
    LET r == IF VGe(addr, MemSizeVal) THEN Returned(s.memory_bus, Zero)
             ELSE BusRead(s.memory_bus, addr, cached)
    IN  IF r.exc # "none"
        THEN Raise([s EXCEPT !.memory_bus = r.bus], r.exc)
        ELSE Ok([s EXCEPT !.memory_bus = r.bus,
                          !.registers = [s.registers EXCEPT ![d.rt] = r.value]])

\* CPU._execute_i_type, LW
execute_lw(s, d, addr, cached) ==
    IF VGe(addr, MemSizeVal)
    THEN Raise(s, "MemoryError")
    ELSE LET r == BusRead(s.memory_bus, addr, cached)
         IN  IF r.exc # "none"
             THEN Raise([s EXCEPT !.memory_bus = r.bus], r.exc)
             ELSE Ok([s EXCEPT !.memory_bus = r.bus,
                               !.registers = ForceR0([s.registers EXCEPT ![d.rt] = r.value])])

\* execute_sw passing every address to the bus, without its own bounds test
execute_sw_Unchecked(s, d, addr) ==
    LET r == WriteWord(s.memory_bus, addr, s.registers[d.rt])
    IN  IF r.exc # "none"
        THEN Raise([s EXCEPT !.memory_bus = r.bus], r.exc)
        ELSE Ok([s EXCEPT !.memory_bus = r.bus,
                          !.registers = ForceR0(s.registers)])

\* CPU._execute_i_type, SW
execute_sw(s, d, addr) ==
    IF VGe(addr, MemSizeVal)
    THEN Raise(s, "MemoryError")
    ELSE LET r == WriteWord(s.memory_bus, addr, s.registers[d.rt])
         IN  IF r.exc # "none"
             THEN Raise([s EXCEPT !.memory_bus = r.bus], r.exc)
             ELSE Ok([s EXCEPT !.memory_bus = r.bus,
                               !.registers = ForceR0(s.registers)])

\* BranchTarget measured from the branch itself, without the + 4
BranchTarget_FromBranch(pc0, immediate) ==
    Mask32(VAdd(pc0, Shl2(SignExtend(immediate))))

\* the branch target of BNE and BEQ: (self.pc + 4 + (immediate << 2)) & 0xFFFFFFFF
BranchTarget(pc0, immediate) ==
    Mask32(VAdd(VAdd(pc0, IntVal(4)), Shl2(SignExtend(immediate))))

\* CPU._execute_i_type, BNE and BEQ
execute_branch(s, d, taken) ==
    IF taken
    THEN Ok([s EXCEPT !.branch_target = <<BranchTarget(s.pc, d.immediate)>>,
                      !.branch_taken = TRUE,
                      !.registers = ForceR0(s.registers)])
    ELSE Ok([s EXCEPT !.registers = ForceR0(s.registers)])

\* CPU._execute_i_type
execute_i_type(s, d, cached) ==
    LET rs == s.registers[d.rs]
        immediate == IF d.opcode \in {8, 35, 43} THEN SignExtend(d.immediate)
                     ELSE d.immediate
        addr == Mask32(VAdd(rs, immediate))
    IN  IF d.opcode = 8
        THEN Ok([s EXCEPT !.registers = ForceR0([s.registers EXCEPT ![d.rt] = addr])])
        ELSE IF d.opcode = 35 THEN execute_lw(s, d, addr, cached)
        ELSE IF d.opcode = 43 THEN execute_sw(s, d, addr)
        ELSE IF d.opcode = 5
        THEN execute_branch(s, d, s.registers[d.rs] # s.registers[d.rt])
        ELSE execute_branch(s, d, s.registers[d.rs] = s.registers[d.rt])

\* JumpTarget taking the 26-bit field as a byte address, without the << 2
JumpTarget_Unshifted(pc0, target_addr) ==
    VAdd(V(((pc0.hi % Limb) \div 4096) * 4096, 0), target_addr)

\* (self.pc & 0xF0000000) | (target_addr << 2)
JumpTarget(pc0, target_addr) ==
    VAdd(V(((pc0.hi % Limb) \div 4096) * 4096, 0), Shl2(target_addr))

\* execute_jump assigning the target itself, so that update_pc adds 4 to it
execute_jump_NoCompensation(s, target) ==
    IF VGe(target, MemSizeVal)
    THEN Raise(s, "MemoryError")
    ELSE Ok([s EXCEPT !.pc = target])

\* CPU._execute_j_type: the bounds test and the jump, common to J and JAL
execute_jump(s, target) ==
    IF VGe(target, MemSizeVal)
    THEN Raise(s, "MemoryError")
    ELSE Ok([s EXCEPT !.pc = VSub(target, IntVal(4))])

\* execute_j_type with JAL saving the address of the JAL itself
execute_j_type_LinksJal(s, d) ==
    LET target == JumpTarget(s.pc, d.target)
    IN  IF d.opcode = 2
        THEN execute_jump(s, target)
        ELSE execute_jump([s EXCEPT !.registers[31] = s.pc], target)

\* CPU._execute_j_type
execute_j_type(s, d) ==
    LET target == JumpTarget(s.pc, d.target)
    IN  IF d.opcode = 2
        THEN execute_jump(s, target)
        ELSE execute_jump([s EXCEPT !.registers[31] = VAdd(s.pc, IntVal(4))], target)

\* update_pc leaving the PC where it is when no branch was taken
update_pc_Stays(s) ==
    LET t == IF s.branch_taken
             THEN [s EXCEPT !.pc = s.branch_target[1], !.branch_taken = FALSE,
                            !.branch_target = <<>>]
             ELSE s
    IN  IF VGe(t.pc, MemSizeVal) THEN Raise(t, "MemoryError") ELSE Ok(t)

\* CPU.update_pc
update_pc(s) ==
    LET t == IF s.branch_taken
             THEN [s EXCEPT !.pc = s.branch_target[1], !.branch_taken = FALSE,
                            !.branch_target = <<>>]
             ELSE [s EXCEPT !.pc = Mask32(VAdd(s.pc, IntVal(4)))]
    IN  IF VGe(t.pc, MemSizeVal) THEN Raise(t, "MemoryError") ELSE Ok(t)

\* HandleException with halted left as it was
HandleException_NoHalt(s) == s

\* CPU.run: the except clause
HandleException(s) == [s EXCEPT !.halted = TRUE]

\* CPU.run: the dispatch on the decoded opcode, then update_pc
execute_and_update(s, d, cached) ==
    IF d.opcode = 63
    THEN Ok([s EXCEPT !.halted = TRUE])
    ELSE LET e == IF d.opcode = 0 THEN execute_r_type(s, d)
                  ELSE IF d.opcode \in ITypeOpcodes THEN execute_i_type(s, d, cached)
                  ELSE execute_j_type(s, d)
         IN  IF e.exc # "none" THEN e ELSE update_pc(e.s)

\* CPU.run: one pass through the body of the while loop
run_iteration(s, cached) ==
    LET f == BusRead(s.memory_bus, s.pc, cached)
        fetched == [s EXCEPT !.memory_bus = f.bus]
        d == decode_instruction(f.value)
        r == IF f.exc # "none" THEN Raise(fetched, f.exc)
             ELSE IF ~d.ok THEN Raise(fetched, "ValueError")
             ELSE execute_and_update(fetched, d, cached)
    IN  IF r.exc # "none" THEN Raise(HandleException(r.s), r.exc) ELSE r

\* WhileCondition of a loop that never tests halted
WhileCondition_Always(h) == TRUE

\* CPU.run: the loop condition
WhileCondition(h) == ~h

----------------------------------------------------------------------------
(* instruction_parser.py: the words the assembler builds *)

\* InstructionParser._parse_r_type: (opcode << 26) | (rs << 21) | (rt << 16) | (rd << 11) | funct
EncodeR(funct, rd, rs, rt) == V(rs * 32 + rt, rd * 2048 + funct)

\* InstructionParser._parse_immediate and the offset of LW and SW: the number
\* written in the source, value & 0xFFFF, then |= -1 << 16 if bit 15 is set
parse_immediate(value) ==
    IF value % Limb >= 32768 THEN (value % Limb) - Limb ELSE value % Limb

\* EncodeI with rs and rt in each other's fields
EncodeI_Swapped(opcode, rt, rs, immediate) == V(opcode * 1024 + rt * 32 + rs, immediate % Limb)

\* InstructionParser._parse_i_type: (opcode << 26) | (rs << 21) | (rt << 16) | (immediate & 0xFFFF)
EncodeI(opcode, rt, rs, immediate) == V(opcode * 1024 + rs * 32 + rt, immediate % Limb)

\* InstructionParser._parse_j_type: (opcode << 26) | (target & 0x3FFFFFF)
EncodeJ(opcode, target) == V(opcode * 1024 + ((target \div Limb) % 1024), target % Limb)

\* InstructionParser._parse_special_instruction: opcode << 26
EncodeSpecial(opcode) == V(opcode * 1024, 0)

\* BranchOffsetField measuring the offset from the branch itself
BranchOffsetField_FromBranch(target_addr, current_address) ==
    ((target_addr - current_address) \div 4) % Limb

\* InstructionParser._parse_i_type, BNE and BEQ: the immediate of a branch at
\* current_address to the label at target_addr,
\* ((target_addr - (current_address + 4)) >> 2) & 0xFFFF
BranchOffsetField(target_addr, current_address) ==
    ((target_addr - (current_address + 4)) \div 4) % Limb

\* InstructionParser._parse_j_type: the target field of a jump to the label
\* at target_addr, target_addr >> 2
JumpTargetField(target_addr) == target_addr \div 4

\* InstructionParser.parse_file, first pass: the address of a label standing
\* before the instruction with the given index, 4 bytes per instruction
LabelAddress(index) == 4 * index

\* InstructionParser.parse_file: machine_code.extend(instruction.to_bytes(4, byteorder='big'))
RECURSIVE MachineCode(_)
MachineCode(instructions) ==
    IF Len(instructions) = 0 THEN <<>>
    ELSE ToBytes(Head(instructions)) \o MachineCode(Tail(instructions))

----------------------------------------------------------------------------
(* The programs the CPU is run on *)

InstructionPool ==
    { EncodeR(32, 0, 29, 29),       \* ADD  $0, $sp, $sp
      EncodeR(34, 1, 0, 29),        \* SUB  $1, $0, $sp
      EncodeR(42, 2, 1, 0),         \* SLT  $2, $1, $0
      EncodeI(8, 1, 1, -1),         \* ADDI $1, $1, -1
      EncodeI(35, 1, 0, 0),         \* LW   $1, 0($0)
      EncodeI(35, 1, 29, 0),        \* LW   $1, 0($sp)
      EncodeI(43, 1, 0, 1),         \* SW   $1, 1($0)
      EncodeI(43, 1, 29, 0),        \* SW   $1, 0($sp)
      EncodeI(4, 0, 0, -2),         \* BEQ  $0, $0, -2
      EncodeJ(2, 0),                \* J    0x0
      EncodeJ(2, 262143),           \* J    0xFFFFC
      EncodeJ(3, 262144),           \* JAL  0x100000
      EncodeSpecial(63),            \* HALT
      EncodeSpecial(62) }           \* CACHE

Programs ==
    UNION { [1..n -> InstructionPool] : n \in 1..MaxProgLen }

\* main.py: MemoryBus(), CPU(memory_bus, instruction_set), load_program(code, 0)
Loaded(program) == NewCPU(LoadProgram(NewBus, MachineCode(program), 0).bus)

----------------------------------------------------------------------------
(* The CPU running a loaded program *)

CPUState ==
    [pc |-> pc, registers |-> registers, halted |-> halted,
     branch_taken |-> branch_taken, branch_target |-> branch_target,
     memory_bus |-> memory_bus]

SetCPU(s) ==
    /\ pc' = s.pc
    /\ registers' = s.registers
    /\ halted' = s.halted
    /\ branch_taken' = s.branch_taken
    /\ branch_target' = s.branch_target
    /\ memory_bus' = s.memory_bus

NoInstruction == decode_instruction(EncodeSpecial(63))

Init ==
    /\ \E program \in Programs : memory_bus = Loaded(program).memory_bus
    /\ pc = NewCPU(memory_bus).pc
    /\ registers = NewCPU(memory_bus).registers
    /\ halted = NewCPU(memory_bus).halted
    /\ branch_taken = NewCPU(memory_bus).branch_taken
    /\ branch_target = NewCPU(memory_bus).branch_target
    /\ cache = NewLineCache
    /\ ref = NewCPU(memory_bus)
    /\ last = [op |-> "init", exc |-> "none", fetched |-> FALSE,
               d |-> NoInstruction, pc |-> pc, registers |-> registers]
    /\ steps = 0

\* run(): one pass through the loop, on the CPU and on the reference
Step ==
    /\ WhileCondition(halted)
    /\ steps < MaxSteps
    /\ LET f == ReadWord(memory_bus, pc)
           r == run_iteration(CPUState, TRUE)
       IN  /\ SetCPU(r.s)
           /\ last' = [op |-> "step", exc |-> r.exc, fetched |-> (f.exc = "none"),
                       d |-> IF f.exc = "none" THEN decode_instruction(f.value)
                             ELSE NoInstruction,
                       pc |-> pc, registers |-> registers]
    /\ ref' = IF WhileCondition(ref.halted) THEN run_iteration(ref, FALSE).s ELSE ref
    /\ steps' = steps + 1
    /\ UNCHANGED cache

\* run() on a halted CPU: the loop body is never entered
RunHalted ==
    /\ ~WhileCondition(halted)
    /\ last' = [last EXCEPT !.op = "run_noop"]
    /\ UNCHANGED <<pc, registers, halted, branch_taken, branch_target, memory_bus,
                   cache, ref, steps>>

Next == Step \/ RunHalted

Spec == Init /\ [][Next]_vars

----------------------------------------------------------------------------
(* The CPU running programs of branches and jumps, and reset between runs *)

FlowPool ==
    { EncodeI(8, 1, 0, 1),          \* ADDI $1, $0, 1
      EncodeI(4, 0, 1, 0),          \* BEQ  $1, $0, 0
      EncodeI(4, 0, 1, 1),          \* BEQ  $1, $0, 1
      EncodeI(5, 0, 1, 0),          \* BNE  $1, $0, 0
      EncodeI(5, 0, 1, -1),         \* BNE  $1, $0, -1
      EncodeI(4, 0, 0, -3),         \* BEQ  $0, $0, -3
      EncodeJ(2, 0),                \* J    0x0
      EncodeJ(3, 2),                \* JAL  0x8
      EncodeSpecial(63) }           \* HALT

FlowPrograms ==
    UNION { [1..n -> FlowPool] : n \in 1..MaxProgLen }

InitFlow ==
    /\ \E program \in FlowPrograms : memory_bus = Loaded(program).memory_bus
    /\ pc = NewCPU(memory_bus).pc
    /\ registers = NewCPU(memory_bus).registers
    /\ halted = NewCPU(memory_bus).halted
    /\ branch_taken = NewCPU(memory_bus).branch_taken
    /\ branch_target = NewCPU(memory_bus).branch_target
    /\ cache = NewLineCache
    /\ ref = NewCPU(memory_bus)
    /\ last = [op |-> "init", exc |-> "none", fetched |-> FALSE,
               d |-> NoInstruction, pc |-> pc, registers |-> registers]
    /\ steps = 0

\* cpu.reset(), between two calls of run(); last keeps the PC and the
\* registers the CPU had before it
CallReset ==
    /\ steps < MaxSteps
    /\ SetCPU(reset(CPUState))
    /\ ref' = reset(ref)
    /\ last' = [last EXCEPT !.op = "reset", !.pc = pc, !.registers = registers]
    /\ steps' = steps + 1
    /\ UNCHANGED cache

NextFlow == Step \/ RunHalted \/ CallReset

SpecFlow == InitFlow /\ [][NextFlow]_vars

----------------------------------------------------------------------------
(* The assembler and the decoder: words built by InstructionParser from     *)
(* chosen fields, decoded by CPU.decode_instruction                         *)

\* $zero, $t0, $t1, $t3, $ra
CodecRegs == { 0, 8, 9, 11, 31 }

\* the numbers written as immediates and offsets
CodecImmediates == { 0, 1, 0 - 1, 32767, 0 - 32768, 65535 }

\* the word addresses jumped to: label address >> 2
CodecTargets == { 0, 1, 2, 262143, 67108863 }

\* InstructionParser.R_TYPE_FUNCTS
RTypeFuncts == { 32, 34, 42 }

NoWord ==
    [op |-> "init", form |-> "none", opcode |-> 0, rs |-> 0, rt |-> 0, rd |-> 0,
     funct |-> 0, immediate |-> 0, target |-> 0, word |-> Zero,
     d |-> NoInstruction]

\* the fields an instruction is written with
CodecInputs ==
    { [NoWord EXCEPT !.form = "R", !.funct = funct, !.rd = rd, !.rs = rs, !.rt = rt] :
          funct \in RTypeFuncts, rd \in CodecRegs, rs \in CodecRegs, rt \in CodecRegs }
    \cup
    { [NoWord EXCEPT !.form = "I", !.opcode = opcode, !.rt = rt, !.rs = rs,
                     !.immediate = immediate] :
          opcode \in ITypeOpcodes, rt \in CodecRegs, rs \in CodecRegs,
          immediate \in CodecImmediates }
    \cup
    { [NoWord EXCEPT !.form = "J", !.opcode = opcode, !.target = target] :
          opcode \in JTypeOpcodes, target \in CodecTargets }

InitCodec ==
    /\ pc = NewCPU(NewBus).pc
    /\ registers = NewCPU(NewBus).registers
    /\ halted = NewCPU(NewBus).halted
    /\ branch_taken = NewCPU(NewBus).branch_taken
    /\ branch_target = NewCPU(NewBus).branch_target
    /\ memory_bus = NewBus
    /\ cache = NewLineCache
    /\ ref = NewCPU(NewBus)
    /\ last \in CodecInputs
    /\ steps = 0

\* the instruction written in last is assembled into word, and the word is
\* decoded; nothing else changes
Assembled(form, word) ==
    /\ last.op = "init" /\ last.form = form
    /\ last' = [last EXCEPT !.op = "assemble", !.word = word,
                            !.d = decode_instruction(word)]
    /\ UNCHANGED <<pc, registers, halted, branch_taken, branch_target, memory_bus,
                   cache, ref, steps>>

\* ADD / SUB / SLT rd, rs, rt
AssembleR ==
    Assembled("R", EncodeR(last.funct, last.rd, last.rs, last.rt))

\* ADDI rt, rs, imm; LW / SW rt, imm(rs); BNE / BEQ rs, rt, label with the
\* label imm words after the next instruction (an offset that does not fit
\* in 16 bits is refused)
AssembleI ==
    /\ last.opcode \in {5, 4} => (last.immediate >= 0 - 32768 /\ last.immediate <= 32767)
    /\ Assembled("I", EncodeI(last.opcode, last.rt, last.rs,
                              IF last.opcode \in {5, 4} THEN last.immediate
                              ELSE parse_immediate(last.immediate)))

\* J / JAL label
AssembleJ ==
    Assembled("J", EncodeJ(last.opcode, last.target))

NextCodec == AssembleR \/ AssembleI \/ AssembleJ

SpecCodec == InitCodec /\ [][NextCodec]_vars

----------------------------------------------------------------------------
(* The CPU running programs that load an address from a data word and      *)
(* store or load through it                                                *)

EdgePool ==
    { EncodeI(35, 1, 0, 8),         \* LW   $1, 8($0)
      EncodeI(43, 1, 1, 0),         \* SW   $1, 0($1)
      EncodeI(35, 2, 1, 0),         \* LW   $2, 0($1)
      V(15, 65532),                 \* .word 0x000FFFFC, MEMORY_SIZE - 4
      V(15, 65533),                 \* .word 0x000FFFFD, MEMORY_SIZE - 3
      V(16, 0),                     \* .word 0x00100000, MEMORY_SIZE
      V(61440, 4) }                 \* .word 0xF0000004, IO_BASE + 4

EdgePrograms ==
    UNION { [1..n -> EdgePool] : n \in 1..MaxProgLen }

InitEdge ==
    /\ \E program \in EdgePrograms : memory_bus = Loaded(program).memory_bus
    /\ pc = NewCPU(memory_bus).pc
    /\ registers = NewCPU(memory_bus).registers
    /\ halted = NewCPU(memory_bus).halted
    /\ branch_taken = NewCPU(memory_bus).branch_taken
    /\ branch_target = NewCPU(memory_bus).branch_target
    /\ cache = NewLineCache
    /\ ref = NewCPU(memory_bus)
    /\ last = [op |-> "init", exc |-> "none", fetched |-> FALSE,
               d |-> NoInstruction, pc |-> pc, registers |-> registers]
    /\ steps = 0

SpecEdge == InitEdge /\ [][Next]_vars

----------------------------------------------------------------------------
(* The CPU running the countdown program                                   *)
(*         ADDI $t0, $zero, n                                              *)
(*         ADDI $t1, $zero, 0                                              *)
(*   loop: BEQ  $t0, $zero, end                                            *)
(*         ADDI $t1, $t1, 1                                                *)
(*         ADDI $t0, $t0, -1                                               *)
(*         J    loop                                                       *)
(*   end:  SW   $t1, 0($zero)                                              *)
(*         HALT                                                            *)
(* as assembled by InstructionParser and loaded at address 0               *)

CountdownProgram(n) ==
    << EncodeI(8, 8, 0, n),
       EncodeI(8, 9, 0, 0),
       EncodeI(4, 0, 8, BranchOffsetField(LabelAddress(6), LabelAddress(2))),
       EncodeI(8, 9, 9, 1),
       EncodeI(8, 8, 8, -1),
       EncodeJ(2, JumpTargetField(LabelAddress(2))),
       EncodeI(43, 9, 0, 0),
       EncodeSpecial(63) >>

InitCountdown ==
    /\ \E n \in 0..MaxCount : memory_bus = Loaded(CountdownProgram(n)).memory_bus
    /\ pc = NewCPU(memory_bus).pc
    /\ registers = NewCPU(memory_bus).registers
    /\ halted = NewCPU(memory_bus).halted
    /\ branch_taken = NewCPU(memory_bus).branch_taken
    /\ branch_target = NewCPU(memory_bus).branch_target
    /\ cache = NewLineCache
    /\ ref = NewCPU(memory_bus)
    /\ last = [op |-> "init", exc |-> "none", fetched |-> FALSE,
               d |-> NoInstruction, pc |-> pc, registers |-> registers]
    /\ steps = 0

\* run(): one pass through the loop; ref keeps the CPU as it was loaded
StepCountdown ==
    /\ WhileCondition(halted)
    /\ steps < MaxRunSteps
    /\ LET f == ReadWord(memory_bus, pc)
           r == run_iteration(CPUState, TRUE)
       IN  /\ SetCPU(r.s)
           /\ last' = [op |-> "step", exc |-> r.exc, fetched |-> (f.exc = "none"),
                       d |-> IF f.exc = "none" THEN decode_instruction(f.value)
                             ELSE NoInstruction,
                       pc |-> pc, registers |-> registers]
    /\ steps' = steps + 1
    /\ UNCHANGED <<cache, ref>>

NextCountdown == StepCountdown \/ RunHalted

\* CPU.run, while not self.halted: what every pass through the loop does to
\* the step counter.  The steps of NextCountdown that change steps are the
\* steps of StepCountdown, and both are enabled in the same states.
LoopAdvances ==
    /\ WhileCondition(halted)
    /\ steps < MaxRunSteps
    /\ steps' = steps + 1

\* run() keeps executing its loop for as long as the CPU is not halted
SpecCountdown ==
    InitCountdown /\ [][NextCountdown]_vars /\ WF_steps(LoopAdvances)

----------------------------------------------------------------------------
(* The CPU running a program that ends at the end of memory: a J at       *)
(* address 0 enters a body loaded in the last MaxBodyLen words, so that a  *)
(* body that only goes forward runs off the end of memory in a few steps   *)

\* the address the body is loaded at
BodyBase == MEMORY_SIZE - 4 * MaxBodyLen

BodyPool ==
    { EncodeI(8, 1, 0, 1),                    \* ADDI $1, $0, 1
      EncodeI(4, 0, 0, 1),                    \* BEQ  $0, $0, 1    forward
      EncodeI(5, 0, 1, -1),                   \* BNE  $1, $0, -1   to itself
      EncodeI(4, 0, 0, -2),                   \* BEQ  $0, $0, -2   backward
      EncodeJ(2, 0),                          \* J    0x0          backward
      EncodeJ(3, (MEMORY_SIZE - 4) \div 4),   \* JAL  0xFFFFC      the last word
      EncodeI(35, 1, 29, 0),                  \* LW   $1, 0($sp)   faults
      EncodeSpecial(63) }                     \* HALT

Bodies ==
    UNION { [1..n -> BodyPool] : n \in 1..MaxBodyLen }

\* MemoryBus(), load_program(entry, 0), load_program(body, BodyBase), CPU(...)
LoadedBody(body) ==
    LET entry == << EncodeJ(2, JumpTargetField(BodyBase)) >>
        low == LoadProgram(NewBus, MachineCode(entry), 0).bus
    IN  NewCPU(LoadProgram(low, MachineCode(body), BodyBase).bus)

\* The instruction d, about to be executed in the CPU state s, is a BEQ, BNE,
\* J or JAL that transfers control to an address <= its own PC
\* (_execute_i_type: the branch conditions; _execute_j_type: the target)
TransfersBackward(s, d) ==
    IF d.opcode \in {2, 3}
    THEN VGe(s.pc, JumpTarget(s.pc, d.target))
    ELSE IF d.opcode = 4
    THEN s.registers[d.rs] = s.registers[d.rt]
            /\ VGe(s.pc, BranchTarget(s.pc, d.immediate))
    ELSE IF d.opcode = 5
    THEN s.registers[d.rs] # s.registers[d.rt]
            /\ VGe(s.pc, BranchTarget(s.pc, d.immediate))
    ELSE FALSE

InitForward ==
    /\ \E body \in Bodies : memory_bus = LoadedBody(body).memory_bus
    /\ pc = NewCPU(memory_bus).pc
    /\ registers = NewCPU(memory_bus).registers
    /\ halted = NewCPU(memory_bus).halted
    /\ branch_taken = NewCPU(memory_bus).branch_taken
    /\ branch_target = NewCPU(memory_bus).branch_target
    /\ cache = NewLineCache
    /\ ref = NewCPU(memory_bus)
    /\ last = [op |-> "init", exc |-> "none", fetched |-> FALSE,
               d |-> NoInstruction, pc |-> pc, registers |-> registers,
               backward |-> FALSE]
    /\ steps = 0

\* run(): one pass through the loop; last.backward records whether the run
\* has executed a backward transfer so far
StepForward ==
    /\ WhileCondition(halted)
    /\ steps < MaxRunSteps
    /\ LET f == ReadWord(memory_bus, pc)
           d == IF f.exc = "none" THEN decode_instruction(f.value) ELSE NoInstruction
           r == run_iteration(CPUState, TRUE)
       IN  /\ SetCPU(r.s)
           /\ last' = [op |-> "step", exc |-> r.exc, fetched |-> (f.exc = "none"),
                       d |-> d, pc |-> pc, registers |-> registers,
                       backward |-> \/ last.backward
                                    \/ /\ f.exc = "none" /\ d.ok /\ r.exc = "none"
                                       /\ TransfersBackward(CPUState, d)]
    /\ steps' = steps + 1
    /\ UNCHANGED <<cache, ref>>

NextForward == StepForward \/ RunHalted

\* run() keeps executing its loop for as long as the CPU is not halted
SpecForward ==
    InitForward /\ [][NextForward]_vars /\ WF_steps(LoopAdvances)

----------------------------------------------------------------------------
(* The bus called directly, as main.py and any embedding caller may *)

BusAddresses ==
    { Zero, IntVal(1), IntVal(4), IntVal(MEMORY_SIZE - 4), IntVal(MEMORY_SIZE - 3),
      VAdd(IO_BASE, IntVal(4)), VAdd(IO_BASE, IntVal(8)),
      IO_BASE, IntVal(-4) }

\* 0x01020304, 0xFFFFFFFF and 2^32
BusValues == { V(258, 772), V(65535, 65535), V(65536, 0) }

\* address is an address of the byte array, not of an I/O register
IsMemoryAddress(address) == VLess(address, IO_BASE)

\* address is an address of memory in range: 0 <= address, address + 4 <= MEMORY_SIZE
InRange(address) ==
    IsMemoryAddress(address) /\ address.hi >= 0 /\ ~OutOfBounds(address)

\* address is a key of the cache dictionary
Resident(bus, address) ==
    IsMemoryAddress(address) /\ ToInt(address) \in DOMAIN bus.cache.cache

\* the programs and base addresses load_program is called with
LoadPrograms == { <<1, 2>>, <<0, 0, 0, 7, 5>> }

LoadBases == { 0, 1, MEMORY_SIZE - 1, 0 - 1, 0 - (MEMORY_SIZE + 1) }

\* the dictionaries load_memory is called with, as the sequences of their items
LoadInitData ==
    { << IntData(0, V(258, 772)) >>,
      << IntData(0, V(65536, 0)) >>,
      << BytesData(4, <<7>>) >>,
      << IntData(4, V(65535, 65535)), IntData(MEMORY_SIZE - 3, V(258, 772)) >> }

\* the history of a bus that has not been called yet
NoCall ==
    [op |-> "init", address |-> Zero, value |-> Zero, exc |-> "none",
     result |-> Zero, resident |-> FALSE, misses |-> 0, clean |-> TRUE,
     since_clear |-> 0, prev_op |-> "init", prev_address |-> Zero,
     prev_result |-> Zero,
     io |-> NewBus.io_devices, written |-> {},
     program |-> <<>>, base |-> 0, init_data |-> <<>>]

InitBus ==
    /\ pc = NewCPU(NewBus).pc
    /\ registers = NewCPU(NewBus).registers
    /\ halted = NewCPU(NewBus).halted
    /\ branch_taken = NewCPU(NewBus).branch_taken
    /\ branch_target = NewCPU(NewBus).branch_target
    /\ memory_bus = NewBus
    /\ cache = NewLineCache
    /\ ref = NewCPU(NewBus)
    /\ last = NoCall
    /\ steps = 0

\* a call of the bus with result r: the bus afterwards, and the history of
\* the call (the calls made since the cache was last empty by construction or
\* by clear(), the call before it)
Performed(op, r, call) ==
    /\ memory_bus' = r.bus
    /\ last' = [call EXCEPT
                   !.op = op, !.exc = r.exc, !.result = r.value,
                   !.misses = memory_bus.cache.misses,
                   !.clean = (last.clean /\ r.exc = "none"
                                 /\ op \in {"read_word", "write_word"}
                                 /\ InRange(call.address)),
                   !.since_clear = IF op \in {"load_program", "clear"} /\ r.exc = "none"
                                   THEN 0
                                   ELSE last.since_clear + 1,
                   !.prev_op = last.op, !.prev_address = last.address,
                   !.prev_result = last.result]
    /\ steps' = steps + 1
    /\ UNCHANGED <<pc, registers, halted, branch_taken, branch_target, cache, ref>>

\* a call of read_word or write_word; io and written follow the values the
\* calls so far have stored in the I/O registers
Called(op, address, value, r) ==
    LET stored == op = "write_word" /\ r.exc = "none" /\ ~IsMemoryAddress(address)
    IN  Performed(op, r,
            [last EXCEPT
                !.address = address, !.value = value,
                !.resident = Resident(memory_bus, address),
                !.io = IF stored
                       THEN [x \in (DOMAIN last.io) \cup {address} |->
                                IF x = address THEN value ELSE last.io[x]]
                       ELSE last.io,
                !.written = IF stored THEN last.written \cup {address}
                            ELSE last.written])

\* memory_bus.read_word(address)
CallReadWord ==
    /\ steps < MaxCalls
    /\ \E address \in BusAddresses :
           Called("read_word", address, Zero, ReadWord(memory_bus, address))

\* memory_bus.write_word(address, value)
CallWriteWord ==
    /\ steps < MaxCalls
    /\ \E address \in BusAddresses, value \in BusValues :
           Called("write_word", address, value, WriteWord(memory_bus, address, value))

NextBus == CallReadWord \/ CallWriteWord

SpecBus == InitBus /\ [][NextBus]_vars

----------------------------------------------------------------------------
(* The bus loaded in bulk, and read and written around the loaded bytes *)

\* the addresses and values of the read_word and write_word calls made
\* between the loads
LoadAddresses == { Zero, IntVal(1), IntVal(4), IntVal(MEMORY_SIZE - 4) }

LoadValues == { V(258, 772), V(65535, 65535) }

\* memory_bus.load_program(program, base_address)
CallLoadProgram ==
    /\ steps < MaxCalls
    /\ \E program \in LoadPrograms, base_address \in LoadBases :
           Performed("load_program", LoadProgram(memory_bus, program, base_address),
                     [last EXCEPT !.program = program, !.base = base_address])

\* memory_bus.load_memory(init_data)
CallLoadMemory ==
    /\ steps < MaxCalls
    /\ \E init_data \in LoadInitData :
           Performed("load_memory", LoadMemory(memory_bus, init_data),
                     [last EXCEPT !.init_data = init_data])

\* memory_bus.read_word(address) between the loads
ReadLoaded ==
    /\ steps < MaxCalls
    /\ \E address \in LoadAddresses :
           Called("read_word", address, Zero, ReadWord(memory_bus, address))

\* memory_bus.write_word(address, value) between the loads
WriteLoaded ==
    /\ steps < MaxCalls
    /\ \E address \in LoadAddresses, value \in LoadValues :
           Called("write_word", address, value, WriteWord(memory_bus, address, value))

\* memory_bus.clear()
CallClear ==
    /\ steps < MaxCalls
    /\ Performed("clear", Clear(memory_bus), last)

NextLoad ==
    CallLoadProgram \/ CallLoadMemory \/ ReadLoaded \/ WriteLoaded \/ CallClear

SpecLoad == InitBus /\ [][NextLoad]_vars

----------------------------------------------------------------------------
(* The bus read and written at addresses one cache size apart *)

\* two addresses of different blocks, and the addresses cache_size after them
MappedAddresses ==
    { Zero, IntVal(block_size), IntVal(cache_size), IntVal(cache_size + block_size) }

MappedValues == { V(258, 772) }

\* memory_bus.read_word(address)
ReadMapped ==
    /\ steps < MaxCalls
    /\ \E address \in MappedAddresses :
           Called("read_word", address, Zero, ReadWord(memory_bus, address))

\* memory_bus.write_word(address, value)
WriteMapped ==
    /\ steps < MaxCalls
    /\ \E address \in MappedAddresses, value \in MappedValues :
           Called("write_word", address, value, WriteWord(memory_bus, address, value))

NextMapped == ReadMapped \/ WriteMapped

SpecMapped == InitBus /\ [][NextMapped]_vars

----------------------------------------------------------------------------
(* The Cache of cache.py called directly: read, write and toggle *)

CacheAddresses == { 0, 1 }

CacheValues == { V(258, 772), V(65535, 65535) }

\* the indices at which the byte arrays m and n differ
ChangedBytes(m, n) ==
    {i \in (DOMAIN m.data) \cup (DOMAIN n.data) : MemByte(m, i) # MemByte(n, i)}

\* the history of a cache that has not been called yet: changed is the set
\* of memory bytes changed since the cache was last disabled and while it
\* was disabled, reenabled whether it was disabled and enabled again since,
\* reads the number of read calls since it was last enabled
NoCacheCall ==
    [op |-> "init", address |-> 0, value |-> Zero, exc |-> "none",
     list |-> FALSE, words |-> <<>>, miss |-> FALSE,
     changed |-> {}, reenabled |-> FALSE, reads |-> 0]

InitCache ==
    /\ pc = NewCPU(NewBus).pc
    /\ registers = NewCPU(NewBus).registers
    /\ halted = NewCPU(NewBus).halted
    /\ branch_taken = NewCPU(NewBus).branch_taken
    /\ branch_target = NewCPU(NewBus).branch_target
    /\ memory_bus = NewBus
    /\ cache = NewLineCache
    /\ ref = NewCPU(NewBus)
    /\ last = NoCacheCall
    /\ steps = 0

\* a call of cache.read or cache.write with result r
CacheCalled(op, address, value, r) ==
    /\ cache' = r.cache
    /\ memory_bus' = r.bus
    /\ last' = [last EXCEPT
                   !.op = op, !.address = address, !.value = value, !.exc = r.exc,
                   !.list = r.list, !.words = r.words,
                   !.miss = (r.cache.misses = cache.misses + 1),
                   !.changed = IF cache.enabled THEN last.changed
                               ELSE last.changed
                                    \cup ChangedBytes(memory_bus.memory, r.bus.memory),
                   !.reads = IF op = "read" THEN last.reads + 1 ELSE last.reads]
    /\ steps' = steps + 1
    /\ UNCHANGED <<pc, registers, halted, branch_taken, branch_target, ref>>

\* cache.read(address)
CallCacheRead ==
    /\ steps < MaxCacheCalls
    /\ \E address \in CacheAddresses :
           CacheCalled("read", address, Zero, LineCacheRead(cache, memory_bus, address))

\* cache.write(address, data)
CallCacheWrite ==
    /\ steps < MaxCacheCalls
    /\ \E address \in CacheAddresses, data \in CacheValues :
           CacheCalled("write", address, data,
                       LineCacheWrite(cache, memory_bus, address, data))

\* cache.toggle(status)
CallCacheToggle ==
    /\ steps < MaxCacheCalls
    /\ \E status \in BOOLEAN :
           /\ cache' = LineCacheToggle(cache, status)
           /\ last' = [last EXCEPT
                          !.op = "toggle", !.exc = "none", !.list = FALSE,
                          !.words = <<>>, !.miss = FALSE,
                          !.changed = IF cache.enabled /\ ~status THEN {}
                                      ELSE last.changed,
                          !.reenabled = IF ~status THEN FALSE
                                        ELSE (~cache.enabled \/ last.reenabled),
                          !.reads = IF status /\ ~cache.enabled THEN 0
                                    ELSE last.reads]
    /\ steps' = steps + 1
    /\ UNCHANGED <<pc, registers, halted, branch_taken, branch_target, memory_bus,
                   ref>>

NextCache == CallCacheRead \/ CallCacheWrite \/ CallCacheToggle

SpecCache == InitCache /\ [][NextCache]_vars

----------------------------------------------------------------------------
(* Properties of the Cache of cache.py (SpecCache) *)

\* the last call was the first read since the cache was disabled and enabled
\* again, at an address whose word changed in memory while it was disabled
FirstReadAfterToggle ==
    /\ last.op = "read"
    /\ cache.enabled /\ last.reenabled /\ last.reads = 1
    /\ \E k \in 0..3 : last.address + k \in last.changed

\* C14: toggling the cache off and on again invalidates every line: when
\* memory was changed while the cache was disabled, the first read of that
\* address after re-enabling is a miss and returns what memory holds now (the
\* words at the addresses read), never data cached before the toggle.
C14_ToggleInvalidates ==
    FirstReadAfterToggle
    => /\ last.exc = "none"
       /\ last.miss
       /\ Len(last.words) > 0
       /\ \A k \in 1..Len(last.words) :
              last.words[k] = MemWord(memory_bus.memory, last.address + k - 1)

----------------------------------------------------------------------------
(* Properties of the CPU running a program (Spec) *)

\* the last step executed instruction d without raising
Executed == last.op = "step" /\ last.exc = "none" /\ last.fetched

\* the address LW and SW compute: (rs + sign_extend(imm)) mod 2^32, before the step
LastAddress == Mask32(VAdd(last.registers[last.d.rs], SignExtend(last.d.immediate)))

C3_CacheTransparent ==
    /\ ref.registers = registers
    /\ ref.pc = pc
    /\ ref.halted = halted
    /\ ref.memory_bus.memory = memory_bus.memory

\* C6: execution never continues past a fault: a step that raises leaves
\* the CPU halted, and once a step has raised no later transition fetches or
\* executes anything (registers, PC, bus and halted flag stay as they are).
C6_NoExecutionPastFault ==
    [][ /\ (last'.op = "step" /\ last'.exc # "none") => halted'
        /\ last.exc # "none" =>
              UNCHANGED <<pc, registers, halted, branch_taken, branch_target,
                          memory_bus>> ]_vars

\* run() was called again after a step raised
C6_Witness == last.op = "run_noop" /\ last.exc # "none" /\ halted

\* C7: HALTED is terminal: once the CPU is halted, a further run() fetches
\* nothing and leaves registers, PC, memory, cache and counters unchanged.
C7_HaltedTerminal ==
    [][ halted => UNCHANGED <<pc, registers, halted, branch_taken, branch_target,
                              memory_bus>> ]_vars

\* run() was called on a CPU halted by the HALT instruction
C7_Witness ==
    /\ last.op = "run_noop" /\ last.exc = "none" /\ halted
    /\ last.fetched /\ last.d.opcode = 63

\* C8: a LW whose computed address is >= MEMORY_SIZE halts the CPU in that
\* step and leaves every register and the PC as they were before it.
C8_LoadOutOfBounds ==
    (last.op = "step" /\ last.fetched /\ last.d.opcode = 35
        /\ VGe(LastAddress, MemSizeVal))
    => (halted /\ registers = last.registers /\ pc = last.pc)

\* a LW with an out-of-bounds address was fetched and faulted
C8_Witness ==
    /\ last.op = "step" /\ last.fetched /\ last.d.opcode = 35
    /\ VGe(LastAddress, MemSizeVal)
    /\ last.exc = "MemoryError"

\* C9: between steps, also after a fault, the PC lies in [0, MEMORY_SIZE).
C9_PCInBounds == pc.hi >= 0 /\ VLess(pc, MemSizeVal)

\* C10: ADD and SUB wrap modulo 2^32: after ADD (SUB) with rd # 0, rd holds
\* (rs + rt) mod 2^32 ((rs - rt) mod 2^32), and every register is in [0, 2^32).
C10_AddSubWrap ==
    /\ (Executed /\ last.d.opcode = 0 /\ last.d.funct = 32 /\ last.d.rd # 0)
        => registers[last.d.rd] =
              Mask32(VAdd(last.registers[last.d.rs], last.registers[last.d.rt]))
    /\ (Executed /\ last.d.opcode = 0 /\ last.d.funct = 34 /\ last.d.rd # 0)
        => registers[last.d.rd] =
              Mask32(VSub(last.registers[last.d.rs], last.registers[last.d.rt]))
    /\ \A r \in Regs : IsU32(registers[r])

\* the low 32 bits of v read as a two's-complement integer
Signed32(v) ==
    IF Mask32(v).hi >= 32768 THEN V(Mask32(v).hi - Limb, v.lo) ELSE Mask32(v)

\* C11: SLT is a signed 32-bit comparison: after SLT with rd # 0, rd is 1
\* exactly when rs read as a two's-complement 32-bit integer is less than rt
\* read the same way, else 0.
C11_SltSigned ==
    (Executed /\ last.d.opcode = 0 /\ last.d.funct = 42 /\ last.d.rd # 0)
    => registers[last.d.rd] =
          (IF VLess(Signed32(last.registers[last.d.rs]),
                    Signed32(last.registers[last.d.rt]))
           THEN IntVal(1) ELSE Zero)

----------------------------------------------------------------------------
(* Properties of the countdown program (SpecCountdown) *)

\* the count n the loaded program starts from: the immediate of its first word
CountdownFrom == ToInt(V(0, MemWord(ref.memory_bus.memory, 0).lo))

\* the CPU halted on the HALT instruction, no step raised, and the word at
\* memory address 0 is the count
CountdownDone ==
    /\ halted
    /\ last.exc = "none" /\ last.fetched /\ last.d.opcode = 63
    /\ MemWord(memory_bus.memory, 0) = IntVal(CountdownFrom)
    /\ ReadWord(memory_bus, Zero).value = IntVal(CountdownFrom)

\* C12: the countdown program loaded at address 0 and run eventually halts
\* through its HALT instruction with no fault, with the word at memory
\* address 0 equal to the count it started from (5 for the program counting
\* down from 5); it is never halted in any other way.
C12_CountdownHalts == (<>CountdownDone) /\ [](halted => CountdownDone)

\* the program counting down from 5 has halted with 5 at address 0
C12_Witness ==
    /\ CountdownFrom = 5
    /\ CountdownDone
    /\ MemWord(memory_bus.memory, 0) = IntVal(5)

----------------------------------------------------------------------------
(* Properties of the bus called directly (SpecBus) *)

\* the last call was a write_word to an in-range memory address that returned
WroteMemory ==
    /\ last.op = "write_word" /\ last.exc = "none"
    /\ last.address.hi >= 0 /\ ~OutOfBounds(last.address)

\* C2: the cache is never stale: after any sequence of read_word and
\* write_word calls that returned, every value the cache holds for an address
\* is the big-endian word now in memory at that address.
C2_CacheNeverStale ==
    last.clean =>
        \A a \in DOMAIN memory_bus.cache.cache :
            memory_bus.cache.cache[a] = MemWord(memory_bus.memory, a)

\* C4: write-no-allocate: a write_word to an address that is not resident
\* counts one cache miss and leaves the address non-resident.
C4_WriteNoAllocate ==
    (WroteMemory /\ ~last.resident)
    => /\ memory_bus.cache.misses = last.misses + 1
       /\ ~Resident(memory_bus, last.address)

\* C5: write-through: after a write_word(a, v) that returned, memory bytes
\* a..a+3 are the big-endian encoding of v, resident or not, and a following
\* read_word(a) returns v.
C5_WriteThrough ==
    WroteMemory =>
        LET a == ToInt(last.address)
            v == last.value
            r == ReadWord(memory_bus, last.address)
        IN  /\ MemByte(memory_bus.memory, a) = v.hi \div 256
            /\ MemByte(memory_bus.memory, a + 1) = v.hi % 256
            /\ MemByte(memory_bus.memory, a + 2) = v.lo \div 256
            /\ MemByte(memory_bus.memory, a + 3) = v.lo % 256
            /\ r.exc = "none"
            /\ r.value = v

\* a word other than the cached one was written to a resident address
C5_Witness ==
    /\ WroteMemory
    /\ last.resident
    /\ last.value = V(65535, 65535)

\* the step is a read_word or write_word call
BusCall == last'.op \in {"read_word", "write_word"} /\ steps' = steps + 1

\* C17: read_word and write_word on a non-I/O address succeed only if
\* 0 <= address and address + 4 <= MEMORY_SIZE; on any other non-I/O address,
\* negative ones included, they raise the address error and leave memory
\* contents, memory length, cache and counters unchanged.
C17_AddressChecked ==
    [][ (BusCall /\ IsMemoryAddress(last'.address) /\ ~InRange(last'.address))
        => (last'.exc = "MemoryError" /\ memory_bus' = memory_bus) ]_vars

\* C18: read_word and write_word at an address >= IO_BASE that is not a
\* registered I/O register raise the I/O address error and change nothing:
\* I/O register values, io_reads, io_writes, memory and cache stay as before.
C18_UnregisteredIO ==
    [][ (BusCall /\ ~IsMemoryAddress(last'.address)
            /\ last'.address \notin DOMAIN memory_bus.io_devices)
        => (last'.exc = "MemoryError" /\ memory_bus' = memory_bus) ]_vars

\* write_word was called on IO_BASE + 8, which is not registered, and raised
C18_Witness ==
    /\ last.op = "write_word"
    /\ last.address = VAdd(IO_BASE, IntVal(8))
    /\ last.address \notin DOMAIN memory_bus.io_devices
    /\ last.exc = "MemoryError"

\* no cache entry is keyed by an I/O address, and every I/O register that was
\* written reads as the value most recently written to it
IOBypassesCache ==
    /\ \A a \in DOMAIN memory_bus.cache.cache : VLess(IntVal(a), IO_BASE)
    /\ \A address \in last.written :
           /\ ReadWord(memory_bus, address).exc = "none"
           /\ ReadWord(memory_bus, address).value = last.io[address]

\* C19: I/O addresses never enter the cache: no cache entry is keyed by an
\* address >= IO_BASE, a read or write of a registered I/O register leaves
\* the cache contents and its hit and miss counters unchanged, and a read of
\* an I/O register returns the value most recently written to it.
C19_IONotCached ==
    /\ []IOBypassesCache
    /\ [][ (BusCall /\ last'.address \in DOMAIN memory_bus.io_devices)
            => (last'.exc = "none" /\ memory_bus'.cache = memory_bus.cache) ]_vars

\* an I/O register was read after it was written, with words cached
C19_Witness ==
    /\ last.op = "read_word" /\ last.exc = "none"
    /\ last.address \in last.written
    /\ last.result = last.io[last.address]
    /\ last.result # Zero
    /\ memory_bus.cache.cache # EmptyMap

\* C20: the three fixed memory-mapped registers exist: write_word to
\* IO_BASE + 4 and to IO_BASE + 8 returns and stores the value, and read_word
\* of IO_BASE returns the value the register was seeded with.
C20_ThreeRegisters ==
    /\ (last.op = "write_word"
          /\ last.address \in {VAdd(IO_BASE, IntVal(4)), VAdd(IO_BASE, IntVal(8))})
        => /\ last.exc = "none"
           /\ last.address \in DOMAIN memory_bus.io_devices
           /\ memory_bus.io_devices[last.address] = last.value
    /\ (last.op = "read_word" /\ last.address = IO_BASE /\ IO_BASE \notin last.written)
        => /\ last.exc = "none"
           /\ last.result = NewBus.io_devices[IO_BASE]

----------------------------------------------------------------------------
(* Properties of the bus loaded in bulk (SpecLoad) *)

\* the last call was a read_word of an in-range memory address
ReadInRange == last.op = "read_word" /\ InRange(last.address)

\* C13: on a freshly constructed or freshly cleared cache the first read of
\* an in-range address is a miss, an immediately repeated read of the same
\* address is a hit, and after that one miss and one hit the statistics
\* report hits = 1, misses = 1 and hit_rate = 0.5.
C13_MissThenHit ==
    /\ (ReadInRange /\ last.since_clear = 1)
        => /\ CacheGetStats(memory_bus.cache).misses = 1
           /\ CacheGetStats(memory_bus.cache).hits = 0
    /\ (ReadInRange /\ last.since_clear = 2
          /\ last.prev_op = "read_word" /\ last.prev_address = last.address)
        => /\ CacheGetStats(memory_bus.cache).hits = 1
           /\ CacheGetStats(memory_bus.cache).misses = 1
           /\ RatioEq(CacheGetStats(memory_bus.cache).hit_rate, Ratio(1, 2))

\* the index of the bytearray that program[i] was stored at
LoadedIndex(i) ==
    IF last.base + i - 1 < 0 THEN last.base + i - 1 + memory_bus.memory.len
    ELSE last.base + i - 1

\* C15: after a load_program that returned, the whole cache is invalid: the
\* loaded bytes are in memory where they were written, and for every address
\* the next read_word returns the word now in memory, whatever was cached
\* before the load.
C15_LoadProgramInvalidates ==
    (last.op = "load_program" /\ last.exc = "none")
    => /\ \A i \in 1..Len(last.program) :
              MemByte(memory_bus.memory, LoadedIndex(i)) = last.program[i]
       /\ \A address \in LoadAddresses :
              /\ ReadWord(memory_bus, address).exc = "none"
              /\ ReadWord(memory_bus, address).value =
                     MemWord(memory_bus.memory, ToInt(address))

\* a program was loaded over address 0 right after the word there was read
\* and cached, and the word is now another one
C15_Witness ==
    /\ last.op = "load_program" /\ last.exc = "none"
    /\ last.prev_op = "read_word" /\ last.prev_address = Zero
    /\ last.base = 0
    /\ MemWord(memory_bus.memory, 0) # last.prev_result

\* C16: a bulk replacement of memory through load_memory never leaves a
\* stale hit: for every address written by a load_memory that returned, a
\* following read_word of that address returns the loaded value, also when
\* the address was read and cached before the load.  (The items of one call
\* do not overlap.)
C16_LoadMemoryNoStaleHit ==
    (last.op = "load_memory" /\ last.exc = "none")
    => \A k \in 1..Len(last.init_data) :
           last.init_data[k].int
           => /\ ReadWord(memory_bus, IntVal(last.init_data[k].address)).exc = "none"
              /\ ReadWord(memory_bus, IntVal(last.init_data[k].address)).value =
                     last.init_data[k].value

----------------------------------------------------------------------------
(* Properties of the counters and of clear() (SpecLoad) *)

\* cache hits, cache misses, memory reads, memory writes, io reads, io writes
Counters(bus) ==
    <<bus.cache.hits, bus.cache.misses, bus.reads, bus.writes,
      bus.io_reads, bus.io_writes>>

\* C21: the six counters of the bus are reset only by clear(): no call of
\* read_word, write_word, load_program or load_memory decreases any of them.
C21_CountersResetOnlyByClear ==
    [][ last'.op # "clear" =>
            \A k \in 1..6 : Counters(memory_bus')[k] >= Counters(memory_bus)[k] ]_vars

\* C22: after clear(), from any state, every memory byte is 0, the cache
\* holds no entry, the six counters are 0, and a read of an address of
\* memory that follows is a miss returning 0.
C22_ClearResets ==
    [][ /\ last'.op = "clear" =>
              /\ memory_bus'.memory = NewMemory
              /\ DOMAIN memory_bus'.cache.cache = {}
              /\ Counters(memory_bus') = <<0, 0, 0, 0, 0, 0>>
        /\ (last.op = "clear" /\ steps' = steps + 1 /\ last'.op = "read_word"
                /\ InRange(last'.address)) =>
              /\ last'.exc = "none" /\ last'.result = Zero
              /\ ~last'.resident
              /\ memory_bus'.cache.misses = 1 /\ memory_bus'.cache.hits = 0 ]_vars

\* clear() was called on a bus whose cache had missed and filled, and whose
\* memory had been written
C22_Witness ==
    /\ last.op = "clear" /\ last.prev_op = "write_word"
    /\ last.misses > 0
    /\ InRange(last.address) /\ last.value # Zero

----------------------------------------------------------------------------
(* Properties of decoding and of faulting accesses (Spec) *)

\* the step being taken is a pass through the loop of run() that fetched a word
Stepping == last'.op = "step" /\ steps' = steps + 1 /\ last'.fetched

\* the address the LW or SW being executed computes
SteppingAddress ==
    Mask32(VAdd(registers[last'.d.rs], SignExtend(last'.d.immediate)))

\* C23: an R-type word (opcode 0) whose funct is not 0x20, 0x22 or 0x2A,
\* the all-zero word included, is a fatal decode error: the CPU halts in that
\* step and the PC does not advance past it.
C23_UnknownFunctFatal ==
    (last.op = "step" /\ last.fetched /\ last.d.opcode = 0
        /\ last.d.funct \notin {32, 34, 42})
    => (halted /\ pc = last.pc)

\* C24: a word with opcode 0x3E executes as a no-op: the CPU stays running,
\* registers and memory are unchanged, and the PC advances by 4.
C24_CacheControlNoOp ==
    [][ (Stepping /\ last'.d.opcode = 62) =>
            /\ ~halted'
            /\ registers' = registers
            /\ memory_bus'.memory = memory_bus.memory
            /\ pc' = VAdd(pc, IntVal(4)) ]_vars

\* C25: a LW or SW whose computed address is below MEMORY_SIZE and not a
\* multiple of 4 halts the CPU with an error and updates no register, no
\* memory byte and no cache entry (the cache is as the fetch left it).
C25_MisalignedFatal ==
    [][ (Stepping /\ last'.d.opcode \in {35, 43}
            /\ VLess(SteppingAddress, MemSizeVal)
            /\ SteppingAddress.lo % 4 # 0) =>
            /\ halted' /\ last'.exc # "none"
            /\ registers' = registers
            /\ memory_bus'.memory = memory_bus.memory
            /\ memory_bus'.cache.cache = ReadWord(memory_bus, pc).bus.cache.cache ]_vars

----------------------------------------------------------------------------
(* Properties of branches, jumps and reset (SpecFlow) *)

\* the last pass through the loop fetched an instruction with this opcode
LastOpcode(opcode) == last.op = "step" /\ last.fetched /\ last.d.opcode = opcode

\* the BEQ or BNE of the last step had its condition true before the step
LastBranchTaken ==
    IF last.d.opcode = 4
    THEN last.registers[last.d.rs] = last.registers[last.d.rt]
    ELSE last.registers[last.d.rs] # last.registers[last.d.rt]

\* (PC + 4 + (sign_extend(imm) << 2)) mod 2^32 for the branch of the last step
LastBranchTarget ==
    Mask32(IntVal(ToInt(last.pc) + 4 + 4 * ToInt(last.d.immediate)))

\* (PC & 0xF0000000) | (target26 << 2) for the jump of the last step
LastJumpTarget ==
    VAdd(V((last.pc.hi \div 4096) * 4096, 0), IntVal(4 * ToInt(last.d.target)))

\* C26: after BEQ (BNE) at address PC the PC is
\* (PC + 4 + (sign_extend(imm) << 2)) mod 2^32 if rs = rt (rs # rt), which is
\* PC + 4 for imm = 0, and PC + 4 if the branch is not taken; no register
\* changes either way.
C26_BranchTarget ==
    (LastOpcode(4) \/ LastOpcode(5)) =>
        /\ pc = (IF LastBranchTaken THEN LastBranchTarget
                 ELSE IntVal(ToInt(last.pc) + 4))
        /\ (LastBranchTaken /\ last.d.immediate = Zero)
               => pc = IntVal(ToInt(last.pc) + 4)
        /\ registers = last.registers

\* a BNE with a negative immediate was taken
C26_Witness ==
    /\ LastOpcode(5) /\ LastBranchTaken /\ last.exc = "none"
    /\ last.d.immediate.hi < 0

\* C27: after a J at address PC whose target (PC & 0xF0000000) | (target26 << 2)
\* is below MEMORY_SIZE, the PC is that target, with no extra + 4, also when
\* the target is 0.
C27_JumpTarget ==
    (LastOpcode(2) /\ VLess(LastJumpTarget, MemSizeVal)) => pc = LastJumpTarget

\* a J to address 0 was executed at an address other than 0
C27_Witness ==
    /\ LastOpcode(2) /\ last.exc = "none"
    /\ LastJumpTarget = Zero /\ last.pc # Zero

\* C28: after a JAL at address PC with an in-bounds target, register 31 is
\* PC + 4, the PC is (PC & 0xF0000000) | (target26 << 2), and no other
\* register has changed.
C28_JalLinks ==
    (LastOpcode(3) /\ VLess(LastJumpTarget, MemSizeVal)) =>
        /\ registers = [last.registers EXCEPT ![31] = IntVal(ToInt(last.pc) + 4)]
        /\ pc = LastJumpTarget

\* a JAL was executed at an address other than 0, after register 1 was set
C28_Witness ==
    /\ LastOpcode(3) /\ last.exc = "none"
    /\ last.pc # Zero /\ last.registers[1] # Zero

\* C29: after construction or reset(), from any prior state, there are 32
\* registers, the PC is 0, the CPU is not halted, no branch is pending, and
\* every register is 0 except register 29, which is 0x7FFFFFFF.
C29_ResetState ==
    (last.op \in {"init", "reset"}) =>
        /\ DOMAIN registers = 0..31 /\ Cardinality(DOMAIN registers) = 32
        /\ pc = Zero
        /\ ~halted
        /\ ~branch_taken /\ branch_target = <<>>
        /\ \A r \in DOMAIN registers :
               registers[r] = (IF r = 29 THEN V(32767, 65535) ELSE Zero)

\* reset() was called on a CPU halted by a fault, with its PC out of bounds
\* and register 1 set
C29_Witness ==
    /\ last.op = "reset" /\ last.exc # "none"
    /\ VGe(last.pc, MemSizeVal)
    /\ last.registers[1] # Zero

----------------------------------------------------------------------------
(* Properties of the assembler and the decoder (SpecCodec) *)

\* the 16-bit field holding n, sign-extended to 32 bits
SignExtend16(n) ==
    IF n % 65536 >= 32768 THEN IntVal((n % 65536) - 65536) ELSE IntVal(n % 65536)

\* C30: decoding the word the assembler builds returns the fields it was
\* built from: rs, rt, rd and funct of an R-type word; opcode, rs, rt and the
\* 16-bit immediate sign-extended to 32 bits of an I-type word; opcode and
\* 26-bit target of a J-type word.  ADDI $t0, $zero, 0 is 0x20080000 and
\* LW $t3, 0($t1) is 0x8D2B0000.
C30_EncodeDecodeRoundTrip ==
    last.op = "assemble" =>
    /\ last.form = "R" =>
          /\ last.d.ok /\ last.d.opcode = 0
          /\ last.d.rs = last.rs /\ last.d.rt = last.rt /\ last.d.rd = last.rd
          /\ last.d.funct = last.funct
    /\ last.form = "I" =>
          /\ last.d.ok /\ last.d.opcode = last.opcode
          /\ last.d.rs = last.rs /\ last.d.rt = last.rt
          /\ last.d.immediate = SignExtend16(last.immediate)
    /\ last.form = "J" =>
          /\ last.d.ok /\ last.d.opcode = last.opcode
          /\ last.d.target = IntVal(last.target)
    /\ (last.form = "I" /\ last.opcode = 8 /\ last.rt = 8 /\ last.rs = 0
           /\ last.immediate = 0) => last.word = V(8200, 0)
    /\ (last.form = "I" /\ last.opcode = 35 /\ last.rt = 11 /\ last.rs = 9
           /\ last.immediate = 0) => last.word = V(36139, 0)

\* a SW with different registers and a negative offset was assembled and decoded
C30_Witness ==
    /\ last.op = "assemble"
    /\ last.form = "I" /\ last.opcode = 43
    /\ last.rt = 11 /\ last.rs = 9 /\ last.immediate = 0 - 1
    /\ last.d.ok

----------------------------------------------------------------------------
(* Properties of the counters and of failing writes (SpecBus) *)

\* the cache holds no word for address that differs from the word in memory
Coherent(bus, address) ==
    Resident(bus, address) =>
        bus.cache.cache[ToInt(address)] = MemWord(bus.memory, ToInt(address))

\* C32: a write reaches the backing store before the cache: when
\* write_word(a, v) fails because v is not an unsigned 4-byte word, the cache
\* holds no value for a that differs from memory (the cache agreeing with
\* memory at a before the call), so a later read_word(a) returns the memory
\* contents.
C32_WriteMemoryFirst ==
    [][ (BusCall /\ last'.op = "write_word" /\ InRange(last'.address)
            /\ ~IsU32(last'.value) /\ Coherent(memory_bus, last'.address))
        => /\ last'.exc # "none"
           /\ Coherent(memory_bus', last'.address)
           /\ ReadWord(memory_bus', last'.address).value
                  = MemWord(memory_bus'.memory, ToInt(last'.address)) ]_vars

\* C37: a successful read_word of a memory address adds one to exactly one
\* of cache hits and cache misses, and one to memory reads exactly when it
\* missed; a successful write_word of a memory address adds one to memory
\* writes; neither changes io_reads or io_writes.
C37_CounterAccounting ==
    [][ /\ (BusCall /\ last'.op = "read_word" /\ IsMemoryAddress(last'.address)
               /\ last'.exc = "none") =>
              /\ \/ /\ memory_bus'.cache.hits = memory_bus.cache.hits + 1
                    /\ memory_bus'.cache.misses = memory_bus.cache.misses
                    /\ memory_bus'.reads = memory_bus.reads
                 \/ /\ memory_bus'.cache.hits = memory_bus.cache.hits
                    /\ memory_bus'.cache.misses = memory_bus.cache.misses + 1
                    /\ memory_bus'.reads = memory_bus.reads + 1
              /\ memory_bus'.io_reads = memory_bus.io_reads
              /\ memory_bus'.io_writes = memory_bus.io_writes
        /\ (BusCall /\ last'.op = "write_word" /\ IsMemoryAddress(last'.address)
               /\ last'.exc = "none") =>
              /\ memory_bus'.writes = memory_bus.writes + 1
              /\ memory_bus'.io_reads = memory_bus.io_reads
              /\ memory_bus'.io_writes = memory_bus.io_writes ]_vars

\* a read_word hit a word that an earlier read had missed and a write had
\* since replaced
C37_Witness ==
    /\ last.op = "read_word" /\ last.exc = "none" /\ InRange(last.address)
    /\ last.resident
    /\ memory_bus.cache.hits = 1 /\ memory_bus.cache.misses = 1
    /\ memory_bus.reads = 1 /\ memory_bus.writes = 1

----------------------------------------------------------------------------
(* Properties of the cache mapping (SpecMapped) *)

\* C34: the cache is direct-mapped: after a read of address A and then a
\* read of B = A + cache_size (same line index, different tag), a further
\* read of A is a miss; and the cache never holds more than cache_size bytes.
C34_DirectMapped ==
    /\ [][ (BusCall /\ last'.op = "read_word" /\ last'.exc = "none"
               /\ last.op = "read_word" /\ last.exc = "none"
               /\ last.prev_op = "read_word"
               /\ last'.address = last.prev_address
               /\ last.address = VAdd(last.prev_address, IntVal(cache_size)))
           => /\ memory_bus'.cache.misses = memory_bus.cache.misses + 1
              /\ memory_bus'.cache.hits = memory_bus.cache.hits ]_vars
    /\ [](4 * Cardinality(DOMAIN memory_bus.cache.cache) <= cache_size)

----------------------------------------------------------------------------
(* Properties of the program counter (Spec) *)

\* C33: the program counter is word-aligned (PC mod 4 = 0) in every
\* reachable state between steps, for every program, also after taken
\* branches, jumps and faults.
C33_PCAligned == pc.lo % 4 = 0

\* a taken branch left the PC out of bounds and the CPU halted by the fault
C33_Witness ==
    /\ last.op = "step" /\ last.fetched /\ last.d.opcode = 4
    /\ last.exc # "none" /\ halted
    /\ pc # last.pc /\ VGe(pc, MemSizeVal)

----------------------------------------------------------------------------
(* Properties of stores and loads at the edges of memory (SpecEdge) *)

\* C31: a SW whose computed address is out of bounds (address >= MEMORY_SIZE,
\* or address + 4 > MEMORY_SIZE) halts the CPU in that step and leaves memory,
\* the cache contents (as the fetch left them) and the memory-writes counter
\* unchanged.
C31_StoreOutOfBounds ==
    [][ (Stepping /\ last'.d.opcode = 43
            /\ (VGe(SteppingAddress, MemSizeVal)
                   \/ VLess(MemSizeVal, VAdd(SteppingAddress, IntVal(4))))) =>
            /\ halted' /\ last'.exc # "none"
            /\ memory_bus'.memory = memory_bus.memory
            /\ memory_bus'.cache.cache = ReadWord(memory_bus, pc).bus.cache.cache
            /\ memory_bus'.writes = memory_bus.writes ]_vars

\* a SW to MEMORY_SIZE - 3, whose word would end past the end of memory, faulted
C31_Witness ==
    /\ last.op = "step" /\ last.fetched /\ last.d.opcode = 43
    /\ LastAddress = IntVal(MEMORY_SIZE - 3)
    /\ last.exc = "MemoryError" /\ halted

\* C35: no instruction executed by the CPU reaches an I/O register: across
\* any run of any program the I/O register values and the io_reads and
\* io_writes counters are as they were when the bus was built.
C35_NoIOFromCPU ==
    /\ memory_bus.io_devices = NewBus.io_devices
    /\ memory_bus.io_reads = 0
    /\ memory_bus.io_writes = 0

\* a SW to the address of the I/O register IO_BASE + 4 was fetched and faulted
C35_Witness ==
    /\ last.op = "step" /\ last.fetched /\ last.d.opcode = 43
    /\ LastAddress = VAdd(IO_BASE, IntVal(4))
    /\ LastAddress \in DOMAIN memory_bus.io_devices
    /\ last.exc = "MemoryError" /\ halted

\* C36: run() terminates for every program in which no executed BEQ, BNE, J
\* or JAL transfers control to an address <= its own PC: every run either
\* executes such a backward transfer or reaches halted; as long as none was
\* executed every pass through the loop that leaves the CPU running has
\* strictly increased the PC; and a running CPU has its PC below MEMORY_SIZE,
\* so the run is over at the latest when the PC reaches MEMORY_SIZE.
C36_ForwardTerminates ==
    /\ <>(halted \/ last.backward)
    /\ [][ (steps' = steps + 1 /\ ~last'.backward /\ ~halted') => VLess(pc, pc') ]_vars
    /\ [](~halted => VLess(pc, MemSizeVal))

\* a body without a backward transfer ran off the end of memory: entered by
\* the J at 0, it was stopped by update_pc when the PC reached MEMORY_SIZE
C36_Witness ==
    /\ halted /\ ~last.backward /\ steps = MaxBodyLen + 1
    /\ last.op = "step" /\ last.fetched /\ last.exc = "MemoryError"
    /\ last.d.opcode = 8
    /\ pc = MemSizeVal

============================================================================
